---- MODULE Spec2Model ----
(***************************************************************************)
(* Model of src/simulationModel.py: get_current_season and predict_match.  *)
(*                                                                         *)
(* Numbers.  Strength coefficients and league averages are natural         *)
(* numbers.  A Poisson probability is kept exactly, as a "weight":         *)
(*     poisson.pmf(k, lam)  =  PoissonWeight(k, lam) * e^(-lam) / MaxGoals!*)
(* so a scoreline cell is  CellWeight * e^(-(lambda_home + lambda_away))   *)
(* / (MaxGoals!)^2.  Within one call the factor is the same for every cell,*)
(* so sums, comparisons and the normalising division are exact on weights. *)
(* Weights exceed 32 bits and are held as little-endian sequences of       *)
(* base-BigBase digits.  Percentages are integers in hundredths            *)
(* (10000 = 100.00).                                                       *)
(*                                                                         *)
(* Floats.  The code computes in IEEE doubles, and the double that         *)
(* poisson.pmf returns depends on how the library rounds exp, log and      *)
(* gammaln: it is within one part in PmfError of the real value, and which *)
(* double of that range it is differs from build to build.  A cell of the  *)
(* table is therefore a range [lo, hi] that holds the double of line 129   *)
(* in every build.  While the rates sum to NormalRate or less no value     *)
(* underflows and the range is taken around the weight above.  Under       *)
(* greater rates a pmf value and a product of two may fall below           *)
(* 2^(-1022), where a double is a whole number of units of 2^(-1074), or   *)
(* become 0.0: there the model counts in these units, rounding the ends of *)
(* the range as the double does.  A sum of cells is the range between the  *)
(* sums of the ends: the rounding of the additions, in whatever order they *)
(* are made, is inside the ranges of the cells.  Two cells are the same    *)
(* double when their ranges hold one double and it is the same, or when    *)
(* both are the product of the same two pmf values; otherwise, when their  *)
(* ranges meet, their doubles may be the same or either one the greater.   *)
(* The sort gives every order these doubles can give, each entry with its  *)
(* level (entries of one level are the same double, and then stand in      *)
(* insertion order), and a percentage is any value the ends of its range   *)
(* round to.  The division of lines 142-145 turns each sum into a share of  *)
(* the total: the range of a share runs from its own sum at the low end    *)
(* over the other two at the high end to the converse, a part in PmfError  *)
(* taken off and added for the rounding of the division.  The last step of *)
(* predict_match has one outcome for each of these; it leaves the locals   *)
(* of lines 124-147, as they are when line 147 has run, in the state       *)
(* beside the returned dict.                                               *)
(***************************************************************************)
EXTENDS Integers, Sequences, FiniteSets, TLC

\* ------------------------------------------------------------- arithmetic

BigBase == 10 ^ 4

RECURSIVE BigOfInt(_)
BigOfInt(n) ==
    IF n = 0 THEN <<>> ELSE <<n % BigBase>> \o BigOfInt(n \div BigBase)

\* a sequence given by a rule, with its entries computed once
Table(f) == SubSeq(f, 1, Len(f))

\* the same for a rule on 1..n
TableTo(f, n) == SubSeq(f, 1, n)

Limb(a, i) == IF i >= 1 /\ i <= Len(a) THEN a[i] ELSE 0

\* without the leading zero digits
BigNorm(a) ==
    IF a = <<>> THEN <<>>
    ELSE IF a[Len(a)] # 0 THEN a
    ELSE IF \A i \in 1..Len(a) : a[i] = 0 THEN <<>>
    ELSE SubSeq(a, 1, CHOOSE i \in 1..Len(a) :
                          a[i] # 0 /\ \A j \in (i + 1)..Len(a) : a[j] = 0)

\* one round of carrying: every entry keeps its last digit and takes what the
\* entry below carries
CarryRound(c) ==
    TableTo([i \in 1..(Len(c) + 1) |->
                (Limb(c, i) % BigBase) + (Limb(c, i - 1) \div BigBase)],
            Len(c) + 1)

\* a carry of 1 enters i: an entry below is BigBase or more and every entry
\* between is BigBase - 1 (entries of at most 2 * BigBase - 2)
CarryIn(c, i) ==
    \E j \in 1..(i - 1) :
        c[j] >= BigBase /\ \A k \in (j + 1)..(i - 1) : c[k] = BigBase - 1

CarryLast(c) ==
    IF \A i \in 1..Len(c) : c[i] < BigBase THEN c
    ELSE TableTo([i \in 1..(Len(c) + 1) |->
                     (Limb(c, i) + (IF CarryIn(c, i) THEN 1 ELSE 0)) % BigBase],
                 Len(c) + 1)

\* the digits of the number whose entries (each below 2^31) are c: rounds of
\* carrying bring every entry to BigBase or less
RECURSIVE BigCarry(_)
BigCarry(c) ==
    IF \A i \in 1..Len(c) : c[i] <= 2 * BigBase - 2 THEN BigNorm(CarryLast(c))
    ELSE BigCarry(CarryRound(c))

BigAdd(a, b) ==
    IF a = <<>> THEN b
    ELSE IF b = <<>> THEN a
    ELSE BigCarry(TableTo([i \in 1..(IF Len(a) > Len(b) THEN Len(a) ELSE Len(b)) |->
                              Limb(a, i) + Limb(b, i)],
                          IF Len(a) > Len(b) THEN Len(a) ELSE Len(b)))

\* a * m for a small multiplier m (m * BigBase stays below 2^31)
BigMulSmall(a, m) ==
    IF a = <<>> \/ m = 0 THEN <<>>
    ELSE BigCarry(TableTo([i \in 1..Len(a) |-> a[i] * m], Len(a)))

\* the sum of a[i] * b[k + 1 - i] for i in lo..hi
RECURSIVE ColumnSum(_, _, _, _, _)
ColumnSum(a, b, k, lo, hi) ==
    IF lo > hi THEN 0
    ELSE (a[lo] * b[k + 1 - lo]) + ColumnSum(a, b, k, lo + 1, hi)

\* a * b, the shorter of at most 21 digits (a column stays below 2^31)
BigMul(a, b) ==
    IF a = <<>> \/ b = <<>> THEN <<>>
    ELSE BigCarry(TableTo([k \in 1..(Len(a) + Len(b) - 1) |->
                              ColumnSum(a, b, k,
                                        IF k > Len(b) THEN k + 1 - Len(b) ELSE 1,
                                        IF k < Len(a) THEN k ELSE Len(a))],
                          Len(a) + Len(b) - 1))

\* a < b, both normalised
BigLess(a, b) ==
    IF Len(a) # Len(b) THEN Len(a) < Len(b)
    ELSE \E i \in 1..Len(a) :
             a[i] < b[i] /\ \A j \in (i + 1)..Len(a) : a[j] = b[j]

BigLeq(a, b) == ~BigLess(b, a)

RECURSIVE BigPow(_, _)
BigPow(x, k) == IF k = 0 THEN <<1>> ELSE BigMulSmall(BigPow(x, k - 1), x)

\* floor(n / d) for d > 0, known to lie in lo..hi
RECURSIVE FloorDivIn(_, _, _, _)
FloorDivIn(n, d, lo, hi) ==
    IF lo = hi THEN lo
    ELSE LET mid == (lo + hi + 1) \div 2
         IN  IF BigLeq(BigMulSmall(d, mid), n)
             THEN FloorDivIn(n, d, mid, hi)
             ELSE FloorDivIn(n, d, lo, mid - 1)

\* floor(x / m) for digits x and a divisor m below BigBase^2, by long division
\* in base 10 from the decimal digit j of x[i] down; r is the remainder and q
\* the quotient so far
RECURSIVE SmallDivFrom(_, _, _, _, _, _)
SmallDivFrom(x, m, i, j, r, q) ==
    IF i = 0 THEN q
    ELSE IF j = 0
    THEN SmallDivFrom(x, m, i - 1, 3, (r * 10 + (x[i] % 10)) % m,
                      q * 10 + ((r * 10 + (x[i] % 10)) \div m))
    ELSE SmallDivFrom(x, m, i, j - 1, (r * 10 + ((x[i] \div (10 ^ j)) % 10)) % m,
                      q * 10 + ((r * 10 + ((x[i] \div (10 ^ j)) % 10)) \div m))

\* floor(n / d) from the two leading digits of d and the digits of n above the
\* others: floor(n / d) is from 2 less to 1 more (d of two digits or more, the
\* quotient at most BigBase + 1)
Estimate(n, d) ==
    IF Len(n) <= Len(d) - 2 THEN 0
    ELSE SmallDivFrom(SubSeq(n, Len(d) - 1, Len(n)),
                      d[Len(d)] * BigBase + d[Len(d) - 1],
                      Len(n) - Len(d) + 2, 3, 0, 0)

\* floor(n / d) for d > 0, known to be at most hi and from near - 2 to near + 1
FloorDivNear(n, d, near, hi) ==
    FloorDivIn(n, d, IF near < 2 THEN 0 ELSE near - 2,
                     IF near + 1 > hi THEN hi ELSE near + 1)

\* floor(n / d) for d > 0, known to be at most hi <= BigBase
FloorDiv(n, d, hi) ==
    IF Len(d) < 2 THEN FloorDivIn(n, d, 0, hi)
    ELSE FloorDivNear(n, d, Estimate(n, d), hi)

\* n / d rounded to the nearest integer, halves to the even one (the rounding
\* of round()), given q = floor(n / d)
RoundFrom(n, d, q) ==
    IF BigLess(BigMulSmall(n, 2), BigMulSmall(d, 2 * q + 1)) THEN q
    ELSE IF BigLess(BigMulSmall(d, 2 * q + 1), BigMulSmall(n, 2)) THEN q + 1
    ELSE IF q % 2 = 0 THEN q ELSE q + 1

\* n / d rounded to the nearest integer, halves to the even one; the quotient
\* is known to be at most hi <= BigBase
RoundDiv(n, d, hi) == RoundFrom(n, d, FloorDiv(n, d, hi))

RECURSIVE Fact(_)
Fact(n) == IF n = 0 THEN 1 ELSE n * Fact(n - 1)

\* ------------------------------------------------- the scoreline computation

MaxGoals == 7

\* A double below 2^(-1022) is a whole number of units of 2^(-DenormalBits);
\* below half a unit it is 0.0.
DenormalBits == 1074

\* Rates that sum to NormalRate or less keep every pmf value and every product
\* of line 129 that is not exactly 0 above 2^(-1022) = e^(-708.39): the least
\* is e^(-NormalRate) / (MaxGoals!)^2 = e^(-707.05).
NormalRate == 690

\* poisson.pmf(k, lam) is 0.0 for every k <= MaxGoals once lam >= UnderflowLambda:
\* lam^k * e^(-lam) / k! is below e^(-745.13), half a unit (for k = MaxGoals
\* from lam = 784 on; for k = 0 from lam = 746 on).
UnderflowLambda == 8 * 100

\* FPrec significant base-BigBase digits of a real: m * BigBase^e
FPrec == 6

FZero == [m |-> <<>>, e |-> 0]

FOfBig(a) ==
    IF Len(a) > FPrec
    THEN [m |-> SubSeq(a, Len(a) - FPrec + 1, Len(a)), e |-> Len(a) - FPrec]
    ELSE [m |-> a, e |-> 0]

FMul(x, y) ==
    IF x.m = <<>> \/ y.m = <<>> THEN FZero
    ELSE LET p == FOfBig(BigMul(x.m, y.m))
         IN  [m |-> p.m, e |-> p.e + x.e + y.e]

RECURSIVE FPow(_, _)
FPow(x, n) ==
    IF n = 0 THEN [m |-> <<1>>, e |-> 0]
    ELSE LET half == FPow(x, n \div 2)
             sq   == FMul(half, half)
         IN  IF n % 2 = 0 THEN sq ELSE FMul(sq, x)

\* the digits of a[1..i] divided by d, r carried in from above
RECURSIVE BigDivSmallFrom(_, _, _, _)
BigDivSmallFrom(a, d, i, r) ==
    IF i = 0 THEN <<>>
    ELSE LET x == r * BigBase + a[i]
         IN  Append(BigDivSmallFrom(a, d, i - 1, x % d), x \div d)

\* x / d for a small d, three more digits kept
FDivSmall(x, d) ==
    IF x.m = <<>> THEN FZero
    ELSE LET a == <<0, 0, 0>> \o x.m
             q == FOfBig(BigNorm(BigDivSmallFrom(a, d, Len(a), 0)))
         IN  [m |-> q.m, e |-> q.e + x.e - 3]

\* A real counted in units, rounded as a double below 2^(-1022) is: to the
\* nearest whole number, a half to the even one.  Rounding is monotonic, so the
\* rounded ends of a range of reals hold the double of every real in it.
FRound(x) ==
    IF x.e >= 0 THEN x
    ELSE LET n     == 0 - x.e
             len   == Len(x.m)
             whole == IF len > n THEN SubSeq(x.m, n + 1, len) ELSE <<>>
             top   == IF len >= n THEN x.m[n] ELSE 0
             more  == \E i \in 1..(n - 1) : i <= len /\ x.m[i] # 0
             odd   == whole # <<>> /\ whole[1] % 2 = 1
             up    == \/ top > BigBase \div 2
                      \/ top = BigBase \div 2 /\ (more \/ odd)
         IN  [m |-> IF up THEN BigAdd(whole, <<1>>) ELSE whole, e |-> 0]

\* a whole number of units as digits
BigOfF(x) ==
    IF x.m = <<>> THEN <<>> ELSE [i \in 1..x.e |-> 0] \o x.m

\* e^(-1), truncated to FPrec digits
ExpNegOneF == [m |-> <<5523, 2159, 4423, 1171, 7944, 3678>>, e |-> 0 - FPrec]

\* 1.0 in units, and one unit
UnitsPerOne == FPow([m |-> <<2>>, e |-> 0], DenormalBits)
OneUnit     == FPow([m |-> <<BigBase \div 2>>, e |-> 0 - 1], DenormalBits)

\* e^(-lam) in units (math.exp inside poisson.pmf)
ExpUnits(lam) == FMul(FPow(ExpNegOneF, lam), UnitsPerOne)

\* The double poisson.pmf returns is within one part in PmfError of the real
\* lam^k * e^(-lam) / k!: the exponent k * log(lam) - gammaln(k + 1) - lam is
\* rounded a few times at a size of up to UnderflowLambda, each time by at
\* most 2^(-44), before exp is taken.
PmfError == <<0, 0, 0, 1>>

\* 1 - 1 / PmfError and 1 + 1 / PmfError
Below == [m |-> <<BigBase - 1, BigBase - 1, BigBase - 1>>, e |-> 0 - 3]
Above == [m |-> <<1, 0, 0, 1>>, e |-> 0 - 3]

\* a range that holds only 0.0
ZeroRange == [lo |-> FZero, hi |-> FZero]

\* the range of the double poisson.pmf(k, lam), in units, given e^(-lam) in
\* units
PmfUnitsFrom(k, lam, exp_units) ==
    [lo |-> FRound(FMul(FDivSmall(FMul(FOfBig(BigPow(lam, k)), exp_units), Fact(k)),
                        Below)),
     hi |-> FRound(FMul(FDivSmall(FMul(FOfBig(BigPow(lam, k)), exp_units), Fact(k)),
                        Above))]

\* the range of the double poisson.pmf(k, lam), in units
PmfUnits(k, lam) ==
    IF lam >= UnderflowLambda THEN ZeroRange ELSE PmfUnitsFrom(k, lam, ExpUnits(lam))

\* the pmf values of line 129 for one rate, k = 0..MaxGoals, in units
PmfUnitsTable(lam, exp_units) ==
    Table([k \in 1..(MaxGoals + 1) |->
              IF lam >= UnderflowLambda THEN ZeroRange
              ELSE PmfUnitsFrom(k - 1, lam, exp_units)])

\* e^(-1) * ExpScale, truncated; ExpScale == BigBase^4
ExpNegOne == <<4423, 1171, 7944, 3678>>
ExpOne    == <<0, 0, 0, 0, 1>>

\* e^(-n) * ExpScale for a natural n (math.exp inside poisson.pmf)
ExpMul(x, y) ==
    LET p == BigMul(x, y)
    IN  IF Len(p) <= 4 THEN <<>> ELSE SubSeq(p, 5, Len(p))

RECURSIVE ExpNegFix(_)
ExpNegFix(n) ==
    IF n = 0 THEN ExpOne
    ELSE LET half == ExpNegFix(n \div 2)
             sq   == ExpMul(half, half)
         IN  IF n % 2 = 0 THEN sq ELSE ExpMul(sq, ExpNegOne)

\* The real poisson.pmf(k, lam) * e^lam * MaxGoals!  =  lam^k * MaxGoals! / k!,
\* or <<>> where the double is 0.0 in every build
PoissonWeight(k, lam) ==
    IF lam > NormalRate /\ PmfUnits(k, lam).hi.m = <<>> THEN <<>>
    ELSE BigMulSmall(BigPow(lam, k), Fact(MaxGoals) \div Fact(k))

\* The ends of the range of a product of two pmf values, as parts in PmfError
\* of the product of the two reals: one part for each factor and less than one
\* for the rounding of the product and of the sums it is added to.
CellBelow == <<BigBase - 3, BigBase - 1, BigBase - 1>>
CellAbove == <<3, 0, 0, 1>>

\* the common denominator of an end of a cell's range:
\* (MaxGoals!)^2 * ExpScale * PmfError
ProbDen ==
    BigMul(BigMul(BigMul(BigOfInt(Fact(MaxGoals)), BigOfInt(Fact(MaxGoals))), ExpOne),
           PmfError)

\* An end w of the range of a cell as a fraction.  Under rates summing to
\* total_rate <= NormalRate it is a weight in parts of PmfError; under greater
\* rates it is a number of units, given here to the nearest 1 / ExpScale.
CellFraction(w, total_rate) ==
    IF w = <<>> THEN [num |-> <<>>, den |-> <<1>>]
    ELSE IF total_rate <= NormalRate
    THEN [num |-> BigMul(w, ExpNegFix(total_rate)), den |-> ProbDen]
    ELSE [num |-> BigOfF(FRound(FMul(FMul(FOfBig(w), OneUnit), [m |-> <<1>>, e |-> 4]))),
          den |-> ExpOne]

\* float(round(p * 100, 2)), in hundredths
RoundPercent(p) == RoundDiv(BigMulSmall(p.num, 100 * 100), p.den, 100 * 100)

\* round(p * 100, 2) is n hundredths or less: p * 100 is below n + 1/2
\* hundredths, or is n + 1/2 with n even
NotAbove(p, n) ==
    \/ BigLess(BigMulSmall(p.num, 2 * 100 * 100), BigMulSmall(p.den, 2 * n + 1))
    \/ /\ BigMulSmall(p.num, 2 * 100 * 100) = BigMulSmall(p.den, 2 * n + 1)
       /\ n % 2 = 0

\* the values of round(p * 100, 2) for p from a fraction that rounds to n up to
\* the fraction greatest
PercentRangeFrom(n, greatest) ==
    IF NotAbove(greatest, n) THEN {n} ELSE n..RoundPercent(greatest)

\* the values of round(p * 100, 2) for p from least to greatest
PercentRange(least, greatest) == PercentRangeFrom(RoundPercent(least), greatest)

Digits == <<"0", "1", "2", "3", "4", "5", "6", "7", "8", "9">>

RECURSIVE ToStr(_)
ToStr(n) == IF n < 10 THEN Digits[n + 1] ELSE ToStr(n \div 10) \o Digits[(n % 10) + 1]

\* f"{home_goals}-{away_goals}"
Scoreline(home_goals, away_goals) == ToStr(home_goals) \o "-" \o ToStr(away_goals)

\* The ends of the ranges of the cells of a row, without the pmf value of the
\* away goals.  When no underflow can happen, the weight ph[k] of the home goals
\* in parts of PmfError; else the least and the greatest pmf value of the home
\* goals as fractions of 1, a part in PmfError taken off and added for the
\* rounding of the product and of the sums.
RowRange(ph, normal) ==
    Table([k \in 1..Len(ph) |->
              IF normal
              THEN [lo |-> BigMul(ph[k], CellBelow), hi |-> BigMul(ph[k], CellAbove)]
              ELSE [lo |-> FMul(FMul(ph[k].lo, OneUnit), Below),
                    hi |-> FMul(FMul(ph[k].hi, OneUnit), Above)]])

\* The range of the product of line 129, ph the ends for the row and pa the pmf
\* value of the away goals: around the product of the two weights when no
\* underflow can happen, else from the product of the two least pmf values to
\* the product of the two greatest, in whole units.
CellProb(ph, pa, normal) ==
    IF normal
    THEN [lo |-> BigMul(ph.lo, pa), hi |-> BigMul(ph.hi, pa)]
    ELSE [lo |-> BigOfF(FRound(FMul(ph.lo, pa.lo))),
          hi |-> BigOfF(FRound(FMul(ph.hi, pa.hi)))]

\* the nested loops of lines 127-131 over the ends ph of the rows and the pmf
\* values pa
ScoreTable(ph, pa, normal) ==
    LET n == MaxGoals + 1
    IN  Table([i \in 1..(n * n) |->
            LET home_goals == (i - 1) \div n
                away_goals == (i - 1) % n
                prob == CellProb(ph[home_goals + 1], pa[away_goals + 1], normal)
            IN  [home_goals |-> home_goals, away_goals |-> away_goals,
                 score |-> Scoreline(home_goals, away_goals),
                 lo |-> prob.lo, hi |-> prob.hi]])

\* the pmf values of line 129 for one rate, as weights or as ranges in units
PmfTable(lam, normal) ==
    IF normal THEN Table([k \in 1..(MaxGoals + 1) |-> PoissonWeight(k - 1, lam)])
    ELSE PmfUnitsTable(lam, ExpUnits(lam))

\* score_probabilities after the loops, in insertion order, every value as its
\* range
ScoreProbabilities(lambda_home, lambda_away) ==
    ScoreTable(RowRange(PmfTable(lambda_home, lambda_home + lambda_away <= NormalRate),
                        lambda_home + lambda_away <= NormalRate),
               PmfTable(lambda_away, lambda_home + lambda_away <= NormalRate),
               lambda_home + lambda_away <= NormalRate)

\* a variant of the chain of lines 133-138 whose first test is h >= a
OutcomeDrawAsHome(c) ==
    IF c.home_goals >= c.away_goals THEN "home"
    ELSE IF c.away_goals > c.home_goals THEN "away"
    ELSE "draw"

\* which running sum a cell is added to (lines 133-138)
Outcome(c) ==
    IF c.home_goals > c.away_goals THEN "home"
    ELSE IF c.away_goals > c.home_goals THEN "away"
    ELSE "draw"

\* the sum of digit i of the ends of one side of cs[first..last]
RECURSIVE DigitSum(_, _, _, _, _)
DigitSum(cs, first, last, side, i) ==
    IF first > last THEN 0
    ELSE IF first = last THEN Limb(cs[first][side], i)
    ELSE DigitSum(cs, first, (first + last) \div 2, side, i)
           + DigitSum(cs, ((first + last) \div 2) + 1, last, side, i)

\* the greatest number of digits of the ends of one side of cs[first..last]
RECURSIVE MostDigits(_, _, _, _)
MostDigits(cs, first, last, side) ==
    IF first > last THEN 0
    ELSE IF first = last THEN Len(cs[first][side])
    ELSE IF MostDigits(cs, first, (first + last) \div 2, side)
              > MostDigits(cs, ((first + last) \div 2) + 1, last, side)
    THEN MostDigits(cs, first, (first + last) \div 2, side)
    ELSE MostDigits(cs, ((first + last) \div 2) + 1, last, side)

\* the sum of the ends of one side of cs[first..last], of at most n digits each
SumDigits(cs, first, last, side, n) ==
    IF n = 0 THEN <<>>
    ELSE BigCarry(TableTo([i \in 1..n |-> DigitSum(cs, first, last, side, i)], n))

\* The sum of the ends of one side ("lo" or "hi") of the ranges of
\* cs[first..last]: a sum of doubles is between the sums of the ends, its own
\* rounding being part of the ranges.
SumProb(cs, first, last, side) ==
    SumDigits(cs, first, last, side, MostDigits(cs, first, last, side))

\* the range of the running sum of one outcome after the loops
OutcomeSum(cells, o) ==
    LET mine == SelectSeq(cells, LAMBDA c : Outcome(c) = o)
    IN  [lo |-> SumProb(mine, 1, Len(mine), "lo"),
         hi |-> SumProb(mine, 1, Len(mine), "hi")]

\* The earliest entry of greatest least value among cells[first..last] not yet
\* taken (0 when all are taken).
RECURSIVE NextBest(_, _, _, _)
NextBest(cells, taken, first, last) ==
    IF first = last THEN (IF first \in taken THEN 0 ELSE first)
    ELSE LET mid == (first + last) \div 2
             l   == NextBest(cells, taken, first, mid)
             r   == NextBest(cells, taken, mid + 1, last)
         IN  IF l = 0 THEN r
             ELSE IF r = 0 THEN l
             ELSE IF BigLess(cells[l].lo, cells[r].lo) THEN r ELSE l

\* the ranges of two entries meet: their doubles may be the same double
Overlap(c, d) == ~BigLess(c.hi, d.lo) /\ ~BigLess(d.hi, c.lo)

\* The floats of two entries are the same whatever the rounding of exp, log and
\* gammaln inside poisson.pmf: their ranges hold one double and it is the same
\* (0.0, or a whole number of units known exactly), or they are products of the
\* same two factors (pmf(h, rate) * pmf(a, rate) and pmf(a, rate) * pmf(h, rate)).
\* Two entries that are equal as real numbers but computed from different
\* factors (pmf(1, 2) and pmf(2, 2)) may differ in the last bits, either way.
SameFloat(c, d, same_rate) ==
    \/ c.lo = c.hi /\ d.lo = d.hi /\ c.lo = d.lo
    \/ c.home_goals = d.home_goals /\ c.away_goals = d.away_goals
    \/ same_rate /\ c.home_goals = d.away_goals /\ c.away_goals = d.home_goals

\* a variant of the order among entries of the same float: the latest first
Latest(S) == CHOOSE j \in S : \A i \in S : i <= j

\* sorted() is stable: among entries of the same float the earliest inserted
\* comes first
Earliest(S) == CHOOSE j \in S : \A i \in S : j <= i

\* the entries of left that the entry best, one of greatest least value, does
\* not surely exceed
Near(cells, left, best) == {j \in left : ~BigLess(cells[j].hi, cells[best].lo)}

\* The entries that can come before all the others of near: the double of every
\* other can be less, or the same when the other is inserted later.
Foremost(cells, near) ==
    {c \in near : \A j \in near :
        \/ j = c
        \/ BigLess(cells[j].lo, cells[c].hi)
        \/ c < j /\ cells[j].lo = cells[c].hi}

\* the entries of left that can come before all the others of left
High(cells, left, best) == Foremost(cells, Near(cells, left, best))

\* the entries of S that come first among the entries of left of their float
Heads(cells, same_rate, left, S) ==
    {j \in S : j = Earliest({i \in left : SameFloat(cells[i], cells[j], same_rate)})}

\* The entries of high whose double can be the double of the entries peers, last
\* the latest of them: inserted after last and, when an entry that surely has
\* that double is left (first_mate, else 0), before it.
Ties(cells, high, last, peers, first_mate) ==
    {j \in high : /\ last < j
                  /\ first_mate = 0 \/ j < first_mate
                  /\ \A p \in peers : Overlap(cells[p], cells[j])}

\* the entries of high whose double can be less than that of the entry last
Lower(cells, high, last) == {j \in high : BigLess(cells[j].lo, cells[last].hi)}

\* The entries that can follow the entry last, each with its level: the level of
\* last when its double is the same as that of last, the next level when it is
\* less.  mates are the entries left that surely have the double of last: while
\* there are any no lesser double follows, and the earliest of them comes
\* before the others.
NextAfter(cells, same_rate, left, high, last, level, peers, mates) ==
    IF mates # {}
    THEN {[at |-> j, level |-> level] :
             j \in {Earliest(mates)}
                     \cup Heads(cells, same_rate, left,
                                Ties(cells, high, last, peers, Earliest(mates)))}
    ELSE {[at |-> j, level |-> level] :
             j \in Heads(cells, same_rate, left, Ties(cells, high, last, peers, 0))}
           \cup {[at |-> j, level |-> level + 1] :
                    j \in Heads(cells, same_rate, left, Lower(cells, high, last))}

\* the places of the entries of before
Taken(before) == {before[k].at : k \in 1..Len(before)}

\* the entries of before that have the double of its last entry
Peers(before) ==
    {before[k].at : k \in {i \in 1..Len(before) :
                              before[i].level = before[Len(before)].level}}

\* The entries that sorted(..., reverse=True) can put after the entries before.
\* An entry is its place in cells and its level, the number of greater doubles
\* in the list before it: entries of one level have the same double.
NextInOrder(cells, same_rate, before) ==
    IF before = <<>>
    THEN {[at |-> j, level |-> 0] :
             j \in Heads(cells, same_rate, 1..Len(cells),
                         High(cells, 1..Len(cells),
                              NextBest(cells, {}, 1, Len(cells))))}
    ELSE NextAfter(cells, same_rate,
                   (1..Len(cells)) \ Taken(before),
                   High(cells, (1..Len(cells)) \ Taken(before),
                        NextBest(cells, Taken(before), 1, Len(cells))),
                   before[Len(before)].at,
                   before[Len(before)].level,
                   Peers(before),
                   {j \in (1..Len(cells)) \ Taken(before) :
                       SameFloat(cells[before[Len(before)].at], cells[j], same_rate)})

\* sorted(score_probabilities.items(), key=prob, reverse=True)[:n], every entry
\* as its place in cells and its level: every order the floats can give
RECURSIVE SortedHeads(_, _, _)
SortedHeads(cells, same_rate, n) ==
    IF n = 0 THEN {<<>>}
    ELSE UNION {{Append(before, e) : e \in NextInOrder(cells, same_rate, before)} :
                   before \in SortedHeads(cells, same_rate, n - 1)}

TopCount == 5

\* line 118
LambdaHome(home_team_stats, away_team_stats, league_averages) ==
    home_team_stats["attack_strength_home"]
      * away_team_stats["defense_strength_away"]
      * league_averages.avg_home_goals

\* a variant of line 120 that multiplies by the home average
LambdaAwayHomeAverage(home_team_stats, away_team_stats, league_averages) ==
    away_team_stats["attack_strength_away"]
      * home_team_stats["defense_strength_home"]
      * league_averages.avg_home_goals

\* line 120
LambdaAway(home_team_stats, away_team_stats, league_averages) ==
    away_team_stats["attack_strength_away"]
      * home_team_stats["defense_strength_home"]
      * league_averages.avg_away_goals

\* a variant of lines 140-145 without the division by the total
NotNormalised(x, total_calculated_prob, rate) == CellFraction(x, rate)

\* lines 142-145: divided by the total when it is greater than 0
Normalised(x, total_calculated_prob, rate) ==
    IF total_calculated_prob # <<>>
    THEN [num |-> x, den |-> total_calculated_prob]
    ELSE CellFraction(x, rate)

\* the ends of the three sums that make the share of outcome o least: its own
\* sum at the low end and the other two at the high end
Least(o) == [k \in {"home", "away", "draw"} |-> IF k = o THEN "lo" ELSE "hi"]

\* and greatest
Greatest(o) == [k \in {"home", "away", "draw"} |-> IF k = o THEN "hi" ELSE "lo"]

\* Lines 140-145: the probability of outcome o when the three sums are the
\* ends side of their ranges and the total is their sum.
ProbabilityAt(sums, rate, o, side) ==
    Normalised(sums[o][side[o]],
               BigAdd(BigAdd(sums.home[side.home], sums.away[side.away]),
                      sums.draw[side.draw]),
               rate)

\* The three percentages that can be returned, given the least that each can
\* be, as <<home, away, draw>>: a percentage grows with its own sum and falls as
\* the other two grow, so when the greatest that each can be rounds like the
\* least there is one triple; else the triples of the three sums at either end.
PercentagesFrom(sums, rate, least) ==
    IF /\ NotAbove(ProbabilityAt(sums, rate, "home", Greatest("home")), least[1])
       /\ NotAbove(ProbabilityAt(sums, rate, "away", Greatest("away")), least[2])
       /\ NotAbove(ProbabilityAt(sums, rate, "draw", Greatest("draw")), least[3])
    THEN {[home_team_win_probability |-> least[1],
           away_team_win_probability |-> least[2],
           draw_probability          |-> least[3]]}
    ELSE {[home_team_win_probability |->
               RoundPercent(ProbabilityAt(sums, rate, "home", side)),
           away_team_win_probability |->
               RoundPercent(ProbabilityAt(sums, rate, "away", side)),
           draw_probability          |->
               RoundPercent(ProbabilityAt(sums, rate, "draw", side))] :
             side \in [{"home", "away", "draw"} -> {"lo", "hi"}]}

\* lines 140-145 and 153-155: the three percentages that the ranges of the
\* three sums can give
Percentages(sums, rate) ==
    PercentagesFrom(sums, rate,
                    <<RoundPercent(ProbabilityAt(sums, rate, "home", Least("home"))),
                      RoundPercent(ProbabilityAt(sums, rate, "away", Least("away"))),
                      RoundPercent(ProbabilityAt(sums, rate, "draw", Least("draw")))>>)

\* line 140: the range of total_calculated_prob, the sum of the three sums
TotalCalculatedProb(sums) ==
    [lo |-> BigAdd(BigAdd(sums.home.lo, sums.away.lo), sums.draw.lo),
     hi |-> BigAdd(BigAdd(sums.home.hi, sums.away.hi), sums.draw.hi)]

\* Lines 142-145 for the sum of outcome o: the range of the local after the
\* division, as two fractions.  The double is least when its own sum is least
\* and the other two are greatest, and the division rounds it by less than a
\* part in PmfError; a sum of 0.0 stays 0.0, divided or not.
Divided(sums, rate, o) ==
    LET least    == ProbabilityAt(sums, rate, o, Least(o))
        greatest == ProbabilityAt(sums, rate, o, Greatest(o))
        QuotientBelow == <<BigBase - 1, BigBase - 1, BigBase - 1>>
        QuotientAbove == <<1, 0, 0, 1>>
    IN  [lo |-> [num |-> BigMul(least.num, QuotientBelow),
                 den |-> BigMul(least.den, PmfError)],
         hi |-> [num |-> BigMul(greatest.num, QuotientAbove),
                 den |-> BigMul(greatest.den, PmfError)]]

\* lines 140-145: total_calculated_prob and the three sums after the division
Shares(sums, rate) ==
    [total_calculated_prob |-> TotalCalculatedProb(sums),
     home_win_prob |-> Divided(sums, rate, "home"),
     away_win_prob |-> Divided(sums, rate, "away"),
     draw_prob     |-> Divided(sums, rate, "draw")]

\* lines 118-138: the two rates, the table and the three sums
Forecast(home_team_stats, away_team_stats, league_averages) ==
    LET lambda_home == LambdaHome(home_team_stats, away_team_stats, league_averages)
        lambda_away == LambdaAway(home_team_stats, away_team_stats, league_averages)
        cells  == ScoreProbabilities(lambda_home, lambda_away)
    IN  [lambda_home |-> lambda_home,
         lambda_away |-> lambda_away,
         score_probabilities |-> cells,
         sums |-> [home |-> OutcomeSum(cells, "home"),
                   away |-> OutcomeSum(cells, "away"),
                   draw |-> OutcomeSum(cells, "draw")]]

\* Lines 148-151: the lists that the first n entries of top can give.  shown[j]
\* is the set of percentages entry j can round to; rounding is monotonic, so a
\* later entry never shows more than an earlier one, and an entry of the same
\* double as the one before shows the same.
RECURSIVE Listings(_, _, _, _)
Listings(cells, shown, top, n) ==
    IF n = 0 THEN {<<>>}
    ELSE UNION {{Append(l, [score |-> cells[top[n].at].score, probability |-> p]) :
                    p \in {q \in shown[top[n].at] :
                              \/ n = 1
                              \/ /\ q <= l[n - 1].probability
                                 /\ top[n].level = top[n - 1].level
                                      => q = l[n - 1].probability}} :
                  l \in Listings(cells, shown, top, n - 1)}

\* round(prob * 100, 2) of lines 148-151 for the entries some order lists: the
\* percentages the range of each can round to
Shown(cells, heads, rate) ==
    LET listed == UNION {{top[i].at : i \in 1..Len(top)} : top \in heads}
    IN  Table([i \in 1..Len(cells) |->
                  IF i \in listed
                  THEN PercentRange(CellFraction(cells[i].lo, rate),
                                    CellFraction(cells[i].hi, rate))
                  ELSE {}])

\* lines 153-167: the returned dict
ResultDict(f, p, top_five_scores, home_team_stats, away_team_stats, league_averages) ==
    [home_team_win_probability |-> p.home_team_win_probability,
     away_team_win_probability |-> p.away_team_win_probability,
     draw_probability          |-> p.draw_probability,
     predicted_goals_home      |-> f.lambda_home,
     predicted_goals_away      |-> f.lambda_away,
     top_five_scores |-> top_five_scores,
     league_averages |-> league_averages,
     home_team_stats |-> home_team_stats,
     away_team_stats |-> away_team_stats,
     home_expected_goals |-> f.lambda_home,
     away_expected_goals |-> f.lambda_away]

\* Lines 140-167: the ways the rest of the call can go, one for each order of
\* the top five, each rounding of its entries and each triple of percentages:
\* the locals after line 147, the three sums divided as shares gives them, and
\* the returned dict.
RunsFrom(f, shares, heads, shown, percentages, home_team_stats, away_team_stats, league_averages) ==
    UNION {{[score_probabilities |-> f.score_probabilities,
             total_calculated_prob |-> shares.total_calculated_prob,
             home_win_prob |-> shares.home_win_prob,
             away_win_prob |-> shares.away_win_prob,
             draw_prob     |-> shares.draw_prob,
             sorted_scores |-> top,
             value |-> ResultDict(f, p, l, home_team_stats, away_team_stats,
                                  league_averages)] :
               p \in percentages,
               l \in Listings(f.score_probabilities, shown, top, Len(top))} :
             top \in heads}

\* lines 140-167, given the orders the top five can have
RunsOfHeads(f, heads, home_team_stats, away_team_stats, league_averages) ==
    RunsFrom(f, Shares(f.sums, f.lambda_home + f.lambda_away), heads,
             Shown(f.score_probabilities, heads, f.lambda_home + f.lambda_away),
             Percentages(f.sums, f.lambda_home + f.lambda_away),
             home_team_stats, away_team_stats, league_averages)

\* lines 140-167: the ways the call can go on from the forecast f
RunsOf(f, home_team_stats, away_team_stats, league_averages) ==
    RunsOfHeads(f, SortedHeads(f.score_probabilities, f.lambda_home = f.lambda_away,
                               TopCount),
                home_team_stats, away_team_stats, league_averages)

\* lines 118-167: the ways the call can go from the two records and the averages
Runs(home_team_stats, away_team_stats, league_averages) ==
    RunsOf(Forecast(home_team_stats, away_team_stats, league_averages),
           home_team_stats, away_team_stats, league_averages)

\* lines 118-167: the dicts that can be returned for the two records and the
\* averages
Predict(home_team_stats, away_team_stats, league_averages) ==
    {run.value : run \in Runs(home_team_stats, away_team_stats, league_averages)}

\* ------------------------------------------------------ values and inputs

\* Python values that cross the boundary to the collaborators
PyNone        == [type |-> "NoneType"]
PyList(items) == [type |-> "list", items |-> items]
PyDict(items) == [type |-> "dict", items |-> items]

\* bool(v)
Truthy(v) ==
    CASE v.type = "NoneType" -> FALSE
      [] v.type = "list"     -> v.items # <<>>
      [] v.type = "dict"     -> DOMAIN v.items # {}

\* None as a value of a dict: it is no number, and multiplying it raises TypeError
NoneValue == 0 - 1

\* required_keys, lines 73 and 96
required_keys ==
    {"attack_strength_home", "defense_strength_home",
     "attack_strength_away", "defense_strength_away"}

StatsRecord(ah, dh, aa, da) ==
    [attack_strength_home |-> ah, defense_strength_home |-> dh,
     attack_strength_away |-> aa, defense_strength_away |-> da]

\* lines 76-81, 86-91, 99-104, 109-114
ZeroStats == StatsRecord(0, 0, 0, 0)

EmptyDict == [k \in {} |-> 0]

\* the arguments of the example call, line 171
home_team_id == 57
away_team_id == 66
league_id    == 2021

\* bounds of the inputs
MaxCoef  == 1
MaxAvg   == 2
HugeCoef == 1000
MidCoef  == 390
YearSpan == 2
\* the year of the docstring's examples, lines 14-16
BaseYear == 2025

\* complete numeric records the stats computation may return: attack a + 1 at home
\* and a away, defence d at home and d + 1 away with a and d at either end of
\* the range, one of huge attack (every pmf value underflows) and one of an
\* attack between (some pmf values and some products of line 129 underflow)
StrengthRecords ==
    {StatsRecord(a + 1, d, a, d + 1) : a \in {0, MaxCoef}, d \in {0, MaxCoef}}
      \cup {StatsRecord(HugeCoef, 1, HugeCoef, 1), StatsRecord(MidCoef, 1, MidCoef, 1)}

Restrict(f, S) == [k \in S |-> f[k]]

\* what one call of calculate_final_team_stats may do
Raises     == [raises |-> TRUE, value |-> PyNone]
Returns(v) == [raises |-> FALSE, value |-> v]

StatsBehaviours ==
    {Raises,
     Returns(PyDict(EmptyDict)),
     Returns(PyList(<<1, 1, 1, 1>>)),
     Returns(PyDict(Restrict(StatsRecord(1, 1, 1, 1),
                             required_keys \ {"defense_strength_away"}))),
     Returns(PyDict([k \in required_keys |-> NoneValue]))}
      \cup {Returns(PyDict(r)) : r \in StrengthRecords}

\* a match of the remote data
Match(season, home, away) ==
    [league |-> league_id, season |-> season, home |-> home, away |-> away]

Fixtures(season) ==
    <<Match(season, home_team_id, away_team_id),
      Match(season, away_team_id, 65),
      Match(season, 65, home_team_id),
      Match(season, 65, 64)>>

\* what retrieve_matches_for_team(league_id, season, team_id=None) may return
FetchReturns(season) == {PyNone, PyList(<<>>), PyList(Fixtures(season))}

ZeroAverages == [avg_home_goals |-> 0, avg_away_goals |-> 0]

\* what calculate_league_averages(matches) may return: zeros for no matches, else
\* averages of 0, 1 and MaxAvg goals
LeagueAverages(matches) ==
    IF matches = <<>> THEN {ZeroAverages}
    ELSE {[avg_home_goals |-> x, avg_away_goals |-> y] :
             x \in {0, 1, MaxAvg}, y \in {0, 1, MaxAvg}}

\* filter_matches_by_team_id(team_id, matches)
filter_matches_by_team_id(team_id, matches) ==
    SelectSeq(matches, LAMBDA m : m.home = team_id \/ m.away = team_id)

DaysIn(month) ==
    IF month = 2 THEN 28 ELSE IF month \in {4, 6, 9, 11} THEN 30 ELSE 31

Date(y, m, d) == [year |-> y, month |-> m, day |-> d]

Years == BaseYear..(BaseYear + YearSpan)

AllDates ==
    {dt \in [year : Years, month : 1..12, day : {1, 15, 28, 30, 31}] :
        dt.day <= DaysIn(dt.month)}

\* the date of the requests followed through predict_match (the docstring's
\* "August 15, 2025", line 15)
RequestDates == {Date(BaseYear, 8, 15)}

\* ------------------------------------------------------------------ state

VARIABLES
    pc,                          \* the step predict_match is at
    now,                         \* datetime.now() of this request
    current_season,
    previous_season,
    all_matches_current_season,
    league_averages,
    home_team_matches,
    away_team_matches,
    home_team_stats,
    away_team_stats,
    score_probabilities,         \* the table after the loops, every value as its range
    total_calculated_prob,       \* the total of line 140, as its range
    home_win_prob,               \* the three sums after lines 142-145, as ranges
    away_win_prob,
    draw_prob,
    sorted_scores,               \* the first TopCount entries of the sorted list
    result,                      \* what predict_match returned, or the exception
    fetches,                     \* the calls of retrieve_matches_for_team
    averages_calls,              \* the calls of calculate_league_averages
    stats_calls                  \* the calls of calculate_final_team_stats

\* the locals of lines 124-147
simulation == <<score_probabilities, total_calculated_prob, home_win_prob,
                away_win_prob, draw_prob, sorted_scores>>

vars == <<pc, now, current_season, previous_season, all_matches_current_season,
          league_averages, home_team_matches, away_team_matches, home_team_stats,
          away_team_stats, simulation, result, fetches, averages_calls, stats_calls>>

\* a variant of lines 18-26 whose season starts in July
get_current_season_from_july(today) ==
    LET current_year  == today.year
        current_month == today.month
    IN  IF current_month < 7 THEN current_year - 1 ELSE current_year

\* lines 18-26
get_current_season(today) ==
    LET current_year  == today.year
        current_month == today.month
    IN  IF current_month < 8 THEN current_year - 1 ELSE current_year

\* x or []
OrEmpty(v) == IF Truthy(v) THEN v.items ELSE <<>>

\* a variant of line 48 with "or" for "and"
NoValidMatchesEither(averages) ==
    averages.avg_home_goals = 0 \/ averages.avg_away_goals = 0

\* line 48
NoValidMatches(averages) ==
    averages.avg_home_goals = 0 /\ averages.avg_away_goals = 0

\* a variant of line 50 that asks for the same season again
PreviousSeasonSame(season) == season

\* line 50
PreviousSeason(season) == season - 1

\* lines 58 and 61
ErrorBoth(season, previous) ==
    [error |-> "No match data found for the league in season " \o ToStr(season)
                 \o " or " \o ToStr(previous) \o " to calculate averages."]

ErrorOne(season) ==
    [error |-> "No match data found for the league in season " \o ToStr(season)
                 \o " to calculate averages."]

\* lines 74-81: the record kept for what the stats computation returned
Validated(stats) ==
    IF ~Truthy(stats) \/ stats.type # "dict" \/ ~(required_keys \subseteq DOMAIN stats.items)
    THEN ZeroStats
    ELSE stats.items

\* lines 70-91: the try block and its handler
StatsOrZero(behaviour) ==
    IF behaviour.raises THEN ZeroStats ELSE Validated(behaviour.value)

\* lines 118-120 multiply these; a None among them raises TypeError
Operands(home_stats, away_stats) ==
    {home_stats["attack_strength_home"], away_stats["defense_strength_away"],
     away_stats["attack_strength_away"], home_stats["defense_strength_home"]}

RaisesTypeError(home_stats, away_stats) == NoneValue \in Operands(home_stats, away_stats)

\* a sum, or the total, before the loops (line 124)
NoProb == [lo |-> <<>>, hi |-> <<>>]

Running      == [kind |-> "running"]
Returned(r)  == [kind |-> "returned", value |-> r]
Propagated(e) == [kind |-> "exception", value |-> [exception |-> e]]

\* the log entry of one call retrieve_matches_for_team(league_id, season,
\* team_id=None) and of the number of matches it gave
FetchCall(season, fetched) ==
    [league_id |-> league_id, season |-> season, team_id |-> PyNone,
     n_matches |-> Len(OrEmpty(fetched))]

\* the log entry of one call calculate_league_averages(matches)
AveragesCall(matches, averages) ==
    [seasons |-> {matches[i].season : i \in 1..Len(matches)}, averages |-> averages]

InitAt(dates) ==
    /\ pc = "get_current_season"
    /\ now \in dates
    /\ current_season = 0
    /\ previous_season = 0
    /\ all_matches_current_season = <<>>
    /\ league_averages = ZeroAverages
    /\ home_team_matches = <<>>
    /\ away_team_matches = <<>>
    /\ home_team_stats = EmptyDict
    /\ away_team_stats = EmptyDict
    /\ score_probabilities = <<>>
    /\ total_calculated_prob = NoProb
    /\ home_win_prob = NoProb
    /\ away_win_prob = NoProb
    /\ draw_prob = NoProb
    /\ sorted_scores = <<>>
    /\ result = Running
    /\ fetches = <<>>
    /\ averages_calls = <<>>
    /\ stats_calls = <<>>

Init == InitAt(RequestDates)

\* line 39
ResolveSeason ==
    /\ pc = "get_current_season"
    /\ current_season' = get_current_season(now)
    /\ pc' = "fetch_current"
    /\ UNCHANGED <<simulation, now, previous_season, all_matches_current_season, league_averages,
                   home_team_matches, away_team_matches, home_team_stats,
                   away_team_stats, result, fetches, averages_calls, stats_calls>>

\* line 42
FetchCurrentSeason ==
    /\ pc = "fetch_current"
    /\ \E fetched \in FetchReturns(current_season) :
          /\ all_matches_current_season' = OrEmpty(fetched)
          /\ fetches' = Append(fetches, FetchCall(current_season, fetched))
    /\ pc' = "league_averages"
    /\ UNCHANGED <<simulation, now, current_season, previous_season, league_averages,
                   home_team_matches, away_team_matches, home_team_stats,
                   away_team_stats, result, averages_calls, stats_calls>>

\* lines 45-48
CalculateLeagueAverages ==
    /\ pc = "league_averages"
    /\ \E averages \in LeagueAverages(all_matches_current_season) :
          /\ league_averages' = averages
          /\ averages_calls' =
                Append(averages_calls, AveragesCall(all_matches_current_season, averages))
          /\ pc' = IF NoValidMatches(averages) THEN "fetch_previous" ELSE "filter"
    /\ UNCHANGED <<simulation, now, current_season, previous_season, all_matches_current_season,
                   home_team_matches, away_team_matches, home_team_stats,
                   away_team_stats, result, fetches, stats_calls>>

\* lines 49-58
FetchPreviousSeason ==
    /\ pc = "fetch_previous"
    /\ previous_season' = PreviousSeason(current_season)
    /\ \E fetched \in FetchReturns(previous_season') :
          LET all_matches_previous_season == OrEmpty(fetched)
          IN  /\ fetches' = Append(fetches, FetchCall(previous_season', fetched))
              /\ IF all_matches_previous_season # <<>>
                  THEN /\ \E averages \in LeagueAverages(all_matches_previous_season) :
                             /\ league_averages' = averages
                             /\ averages_calls' =
                                   Append(averages_calls,
                                          AveragesCall(all_matches_previous_season, averages))
                       /\ all_matches_current_season' = all_matches_previous_season
                       /\ current_season' = previous_season'
                       /\ pc' = "filter"
                       /\ UNCHANGED result
                  ELSE /\ result' = Returned(ErrorBoth(current_season, previous_season'))
                       /\ pc' = "done"
                       /\ UNCHANGED <<league_averages, averages_calls,
                                      all_matches_current_season, current_season>>
    /\ UNCHANGED <<simulation, now, home_team_matches, away_team_matches, home_team_stats,
                   away_team_stats, stats_calls>>

\* lines 60-67
FilterTeamMatches ==
    /\ pc = "filter"
    /\ IF all_matches_current_season = <<>>
       THEN /\ result' = Returned(ErrorOne(current_season))
            /\ pc' = "done"
            /\ UNCHANGED <<home_team_matches, away_team_matches>>
       ELSE /\ home_team_matches' =
                   filter_matches_by_team_id(home_team_id, all_matches_current_season)
            /\ away_team_matches' =
                   filter_matches_by_team_id(away_team_id, all_matches_current_season)
            /\ pc' = "home_stats"
            /\ UNCHANGED result
    /\ UNCHANGED <<simulation, now, current_season, previous_season, all_matches_current_season,
                   league_averages, home_team_stats, away_team_stats, fetches,
                   averages_calls, stats_calls>>

StatsCall(team_id, team_matches, behaviour) ==
    [season |-> current_season, league_id |-> league_id, team_id |-> team_id,
     league_averages |-> league_averages, team_matches |-> team_matches,
     behaviour |-> behaviour]

\* lines 70-91
HomeTeamStats ==
    /\ pc = "home_stats"
    /\ \E behaviour \in StatsBehaviours :
          /\ home_team_stats' = StatsOrZero(behaviour)
          /\ stats_calls' =
                Append(stats_calls, StatsCall(home_team_id, home_team_matches, behaviour))
    /\ pc' = "away_stats"
    /\ UNCHANGED <<simulation, now, current_season, previous_season, all_matches_current_season,
                   league_averages, home_team_matches, away_team_matches,
                   away_team_stats, result, fetches, averages_calls>>

\* lines 93-114
AwayTeamStats ==
    /\ pc = "away_stats"
    /\ \E behaviour \in StatsBehaviours :
          /\ away_team_stats' = StatsOrZero(behaviour)
          /\ stats_calls' =
                Append(stats_calls, StatsCall(away_team_id, away_team_matches, behaviour))
    /\ pc' = "predict"
    /\ UNCHANGED <<simulation, now, current_season, previous_season, all_matches_current_season,
                   league_averages, home_team_matches, away_team_matches,
                   home_team_stats, result, fetches, averages_calls>>

\* lines 116-167
ComputeResult ==
    /\ pc = "predict"
    /\ IF RaisesTypeError(home_team_stats, away_team_stats)
       THEN /\ result' = Propagated("TypeError")
            /\ UNCHANGED simulation
       ELSE \E run \in Runs(home_team_stats, away_team_stats, league_averages) :
                /\ score_probabilities' = run.score_probabilities
                /\ total_calculated_prob' = run.total_calculated_prob
                /\ home_win_prob' = run.home_win_prob
                /\ away_win_prob' = run.away_win_prob
                /\ draw_prob' = run.draw_prob
                /\ sorted_scores' = run.sorted_scores
                /\ result' = Returned(run.value)
    /\ pc' = "done"
    /\ UNCHANGED <<now, current_season, previous_season, all_matches_current_season,
                   league_averages, home_team_matches, away_team_matches,
                   home_team_stats, away_team_stats, fetches, averages_calls, stats_calls>>

Next ==
    \/ ResolveSeason
    \/ FetchCurrentSeason
    \/ CalculateLeagueAverages
    \/ FetchPreviousSeason
    \/ FilterTeamMatches
    \/ HomeTeamStats
    \/ AwayTeamStats
    \/ ComputeResult

Spec == Init /\ [][Next]_vars

\* ---------------------------------------------------- further specifications

\* get_current_season alone, called on every date of AllDates
SeasonNext == ResolveSeason

SeasonSpec == InitAt(AllDates) /\ [][SeasonNext]_vars

\* what the stats computation did when predict_match holds the record stats
BehaviourOf(stats) == IF stats = ZeroStats THEN Raises ELSE Returns(PyDict(stats))

\* predict_match at line 116, after a fetch of the current season that gave
\* matches whose averages are not both zero: every pair of numeric records and
\* every such pair of averages
PredictInit ==
    /\ pc = "predict"
    /\ now \in RequestDates
    /\ current_season = get_current_season(now)
    /\ previous_season = 0
    /\ all_matches_current_season = Fixtures(current_season)
    /\ league_averages \in LeagueAverages(all_matches_current_season) \ {ZeroAverages}
    /\ home_team_matches = filter_matches_by_team_id(home_team_id, all_matches_current_season)
    /\ away_team_matches = filter_matches_by_team_id(away_team_id, all_matches_current_season)
    /\ home_team_stats \in StrengthRecords \cup {ZeroStats}
    /\ away_team_stats \in StrengthRecords \cup {ZeroStats}
    /\ score_probabilities = <<>>
    /\ total_calculated_prob = NoProb
    /\ home_win_prob = NoProb
    /\ away_win_prob = NoProb
    /\ draw_prob = NoProb
    /\ sorted_scores = <<>>
    /\ result = Running
    /\ fetches = <<FetchCall(current_season, PyList(all_matches_current_season))>>
    /\ averages_calls = <<AveragesCall(all_matches_current_season, league_averages)>>
    /\ stats_calls =
         <<StatsCall(home_team_id, home_team_matches, BehaviourOf(home_team_stats)),
           StatsCall(away_team_id, away_team_matches, BehaviourOf(away_team_stats))>>

PredictNext == ComputeResult

PredictSpec == PredictInit /\ [][PredictNext]_vars

\* ------------------------------------------------------------------ claims

\* predict_match has returned the populated result
Populated ==
    /\ pc = "done"
    /\ result.kind = "returned"
    /\ "top_five_scores" \in DOMAIN result.value

\* predict_match has returned a structured error record
ErrorReturned ==
    /\ pc = "done"
    /\ result.kind = "returned"
    /\ DOMAIN result.value = {"error"}

BothZero(averages) == averages.avg_home_goals = 0 /\ averages.avg_away_goals = 0

\* C1: every call of predict_match ends by returning a populated result or a
\* structured error record, whatever the collaborators do; no exception
\* propagates out of it.
C1_NoExceptionPropagates ==
    pc = "done" => (Populated \/ ErrorReturned)

\* C2: the previous season (season - 1) is fetched exactly when the averages of
\* the resolved current season are both 0; when the previous season gives no
\* matches either, the error naming both seasons is returned and no stats or
\* lambda computation happens; at most one season back is tried.
C2_SeasonFallback ==
    /\ Len(fetches) <= 2
    /\ Len(fetches) >= 1 =>
         /\ fetches[1].season = (IF now.month < 8 THEN now.year - 1 ELSE now.year)
    /\ Len(averages_calls) >= 1 =>
         averages_calls[1].seasons \subseteq {fetches[1].season}
    /\ Len(fetches) = 2 =>
         /\ fetches[2].season = fetches[1].season - 1
         /\ BothZero(averages_calls[1].averages)
    /\ (Len(averages_calls) >= 1 /\ BothZero(averages_calls[1].averages)
            /\ pc # "fetch_previous") =>
         Len(fetches) = 2
    /\ (Len(fetches) = 2 /\ fetches[2].n_matches = 0) =>
         /\ pc = "done"
         /\ result.kind = "returned"
         /\ result.value =
              [error |-> "No match data found for the league in season "
                           \o ToStr(fetches[1].season) \o " or "
                           \o ToStr(fetches[1].season - 1)
                           \o " to calculate averages."]
         /\ stats_calls = <<>>
         /\ Len(averages_calls) = 1

\* C2 witness: both seasons were fetched, the previous one gave no matches, and
\* the error was returned
C2_Witness ==
    /\ ErrorReturned
    /\ Len(fetches) = 2
    /\ fetches[2].n_matches = 0

\* C3 as stated: at most one call of retrieve_matches_for_team per request,
\* executions that take the season fallback included.
C3_AtMostOneFetch == Len(fetches) <= 1

\* the matches of a list in which a team plays, home or away
MatchesOf(team_id, matches) ==
    SelectSeq(matches, LAMBDA m : m.home = team_id \/ m.away = team_id)

\* C3: at most one league-wide fetch per season and at most two per request,
\* the second one only for season - 1 on the fallback; the team matches handed
\* to the stats computation are the team's entries of the fetched list of the
\* season in use, and no fetch is made per team.
C3_OneFetchPerSeason ==
    /\ Len(fetches) <= 2
    /\ \A i \in 1..Len(fetches) : fetches[i].team_id = PyNone
    /\ Len(fetches) = 2 =>
         /\ fetches[2].season = fetches[1].season - 1
         /\ BothZero(averages_calls[1].averages)
    /\ \A i \in 1..Len(stats_calls) :
         /\ \E k \in 1..Len(fetches) :
              /\ fetches[k].season = stats_calls[i].season
              /\ fetches[k].n_matches = Len(all_matches_current_season)
         /\ stats_calls[i].team_matches =
              MatchesOf(stats_calls[i].team_id, all_matches_current_season)
         /\ \A k \in 1..Len(stats_calls[i].team_matches) :
              stats_calls[i].team_matches[k].season = stats_calls[i].season

\* C3 witness: a populated result after the fallback, with two fetches
C3_Witness ==
    /\ Populated
    /\ Len(fetches) = 2
    /\ Len(stats_calls) = 2

\* the stats computation raised, or returned something empty, not a dict or
\* without one of the four keys
Failed(behaviour) ==
    \/ behaviour.raises
    \/ behaviour.value.type # "dict"
    \/ ~({"attack_strength_home", "defense_strength_home",
          "attack_strength_away", "defense_strength_away"}
            \subseteq DOMAIN behaviour.value.items)

\* C4: when the stats computation of one team fails, that team's record is the
\* all-zero record, the other team's record is the one computed, and
\* predict_match returns a populated result.
C4_DegradedStillPredicts ==
    (pc = "done" /\ Len(stats_calls) = 2) =>
        LET kept == <<home_team_stats, away_team_stats>>
        IN  \A i \in 1..2 :
              Failed(stats_calls[i].behaviour) =>
                /\ kept[i] = [k \in {"attack_strength_home", "defense_strength_home",
                                     "attack_strength_away", "defense_strength_away"}
                                |-> 0]
                /\ ~Failed(stats_calls[3 - i].behaviour) =>
                     kept[3 - i] = stats_calls[3 - i].behaviour.value.items
                /\ Populated

\* C9: get_current_season gives Y - 1 on every date of January to July of year
\* Y and Y on every date of August to December of year Y.
C9_SeasonBoundary ==
    pc = "fetch_current" =>
        /\ now.month \in 1..7 => current_season = now.year - 1
        /\ now.month \in 8..12 => current_season = now.year

\* C9 witness: the season resolved on July 31
C9_Witness ==
    /\ pc = "fetch_current"
    /\ now = [year |-> BaseYear + 1, month |-> 7, day |-> 31]
    /\ current_season = BaseYear

\* C10: a populated result is never computed from league averages that are
\* both 0, and the averages, the filtered matches of both teams and the season
\* given to the stats computation come from the fetch of one season.
C10_NeverPredictsFromZeroAverages ==
    Populated =>
        /\ ~BothZero(result.value.league_averages)
        /\ result.value.league_averages = averages_calls[Len(averages_calls)].averages
        /\ averages_calls[Len(averages_calls)].seasons = {current_season}
        /\ fetches[Len(fetches)].season = current_season
        /\ \A i \in 1..2 :
             /\ stats_calls[i].season = current_season
             /\ stats_calls[i].league_averages = result.value.league_averages
             /\ \A k \in 1..Len(stats_calls[i].team_matches) :
                  stats_calls[i].team_matches[k].season = current_season

\* The claims below are about the numbers of the result: percentages are in
\* hundredths, 10000 standing for 100.00
Hundred == 100 * 100

\* the sum of the three returned percentages
ResultSum ==
    result.value.home_team_win_probability
      + result.value.away_team_win_probability
      + result.value.draw_probability

SwapAverages(averages) ==
    [avg_home_goals |-> averages.avg_away_goals, avg_away_goals |-> averages.avg_home_goals]

\* a record with its home and away coefficients exchanged
Mirror(stats) ==
    [attack_strength_home  |-> stats["attack_strength_away"],
     defense_strength_home |-> stats["defense_strength_away"],
     attack_strength_away  |-> stats["attack_strength_home"],
     defense_strength_away |-> stats["defense_strength_home"]]

\* the place in the table of the scoreline of the cell c with its goals exchanged
Across(c) == c.away_goals * (MaxGoals + 1) + c.home_goals + 1

\* the table mirrored holds every value of the table cells, under the scoreline
\* with the goals exchanged
Transposed(cells, mirrored) ==
    /\ Len(mirrored) = Len(cells)
    /\ \A i \in 1..Len(cells) :
         /\ mirrored[Across(cells[i])].score
              = Scoreline(cells[i].away_goals, cells[i].home_goals)
         /\ mirrored[Across(cells[i])].lo = cells[i].lo
         /\ mirrored[Across(cells[i])].hi = cells[i].hi

\* The run f is the run that was made with home and away exchanged: its lambdas
\* are the lambdas exchanged, its table is the table with the goals of every
\* scoreline exchanged (the same products), its total is the total, its home
\* and away sums after the division are the away and home sums (the same
\* products added in another order, so the same up to the rounding of the
\* additions, which the ranges hold), and the returned percentages, the two
\* wins exchanged, are percentages it can return.
Exchanged(f) ==
    /\ f.lambda_home = result.value.away_expected_goals
    /\ f.lambda_away = result.value.home_expected_goals
    /\ Transposed(score_probabilities, f.score_probabilities)
    /\ TotalCalculatedProb(f.sums) = total_calculated_prob
    /\ Divided(f.sums, f.lambda_home + f.lambda_away, "home") = away_win_prob
    /\ Divided(f.sums, f.lambda_home + f.lambda_away, "away") = home_win_prob
    /\ Divided(f.sums, f.lambda_home + f.lambda_away, "draw") = draw_prob
    /\ \E p \in Percentages(f.sums, f.lambda_home + f.lambda_away) :
         /\ p.home_team_win_probability = result.value.away_team_win_probability
         /\ p.away_team_win_probability = result.value.home_team_win_probability
         /\ p.draw_probability = result.value.draw_probability

C6_SumsToHundred ==
    Populated => (ResultSum >= Hundred - 2 /\ ResultSum <= Hundred + 2)

\* the total of the three sums after the loops (line 140) is the sum of all the
\* cells of the table, at either end of the ranges: every cell is in exactly
\* one of them
EveryCellInOneSum ==
    /\ \A i \in 1..Len(score_probabilities) :
         Outcome(score_probabilities[i]) \in {"home", "away", "draw"}
    /\ total_calculated_prob.lo
         = SumProb(score_probabilities, 1, Len(score_probabilities), "lo")
    /\ total_calculated_prob.hi
         = SumProb(score_probabilities, 1, Len(score_probabilities), "hi")

\* The three sums after lines 142-145 can add up to 1: the least values of
\* their ranges add up to 1 or less and the greatest to 1 or more.
SharesOfOne ==
    LET Plus(p, q) == [num |-> BigAdd(BigMul(p.num, q.den), BigMul(q.num, p.den)),
                       den |-> BigMul(p.den, q.den)]
        least    == Plus(Plus(home_win_prob.lo, away_win_prob.lo), draw_prob.lo)
        greatest == Plus(Plus(home_win_prob.hi, away_win_prob.hi), draw_prob.hi)
    IN  /\ ~BigLess(least.den, least.num)
        /\ ~BigLess(greatest.num, greatest.den)

\* the three sums after lines 142-145 are all 0.0
SharesAllZero ==
    /\ home_win_prob.hi.num = <<>>
    /\ away_win_prob.hi.num = <<>>
    /\ draw_prob.hi.num = <<>>

\* C6: every cell of the table is added to exactly one of the three sums; when
\* the total of the three sums is greater than 0 the three sums divided by it
\* can add up to 1 and the three percentages add up to 100.00 within 0.02, and
\* when it is 0 the three sums and the three percentages are 0 (a total whose
\* range holds 0.0 and more is one or the other).
C6_SumsToHundredWhenPositive ==
    Populated =>
        LET least    == total_calculated_prob.lo
            greatest == total_calculated_prob.hi
            near     == ResultSum >= Hundred - 2 /\ ResultSum <= Hundred + 2
            zero     == /\ result.value.home_team_win_probability = 0
                        /\ result.value.away_team_win_probability = 0
                        /\ result.value.draw_probability = 0
        IN  /\ Len(score_probabilities) = (MaxGoals + 1) * (MaxGoals + 1)
            /\ EveryCellInOneSum
            /\ least # <<>> => near
            /\ greatest # <<>> => SharesOfOne
            /\ greatest = <<>> => zero /\ SharesAllZero
            /\ near \/ zero

\* C6 witness: a result of three positive percentages from a home rate of 4 or
\* more, where the table holds visibly less than the whole distribution
C6_Witness ==
    /\ Populated
    /\ result.value.home_expected_goals >= 4
    /\ result.value.home_expected_goals < 100
    /\ result.value.home_team_win_probability > 0
    /\ result.value.away_team_win_probability > 0
    /\ result.value.draw_probability > 0

\* C7: with two all-zero records both lambdas are 0, the first of the top five
\* is "0-0" with 100.00, the draw probability is 100.00 and both win
\* probabilities are 0.
C7_AllZeroRecords ==
    (Populated /\ (\A k \in DOMAIN home_team_stats : home_team_stats[k] = 0)
               /\ (\A k \in DOMAIN away_team_stats : away_team_stats[k] = 0)) =>
        /\ result.value.home_expected_goals = 0
        /\ result.value.away_expected_goals = 0
        /\ result.value.predicted_goals_home = 0
        /\ result.value.predicted_goals_away = 0
        /\ result.value.top_five_scores[1] = [score |-> "0-0", probability |-> Hundred]
        /\ result.value.draw_probability = Hundred
        /\ result.value.home_team_win_probability = 0
        /\ result.value.away_team_win_probability = 0

\* C7 witness: a result computed from two all-zero records
C7_Witness ==
    /\ Populated
    /\ home_team_stats = [k \in DOMAIN home_team_stats |-> 0]
    /\ away_team_stats = [k \in DOMAIN away_team_stats |-> 0]
    /\ DOMAIN home_team_stats # {}

\* the two rates of the result are the same number
ResultSameRate == result.value.home_expected_goals = result.value.away_expected_goals

\* the enumeration order of lines 127-128: fewer home goals or, at the same home
\* goals, fewer away goals
EnumeratedBefore(c, d) ==
    \/ c.home_goals < d.home_goals
    \/ c.home_goals = d.home_goals /\ c.away_goals < d.away_goals

\* the place in the table of entry k of the sorted list, and its level
SortedAt(k) == sorted_scores[k].at
SortedLevel(k) == sorted_scores[k].level

\* The levels of the sorted list are an order the doubles of its entries have
\* in some build: entries that are surely the same double are of one level,
\* entries of one level can be the same double, and an entry of a lesser level
\* can be a greater double.
LevelsOfFloats ==
    \A k, l \in 1..Len(sorted_scores) :
        /\ SameFloat(score_probabilities[SortedAt(k)], score_probabilities[SortedAt(l)],
                     ResultSameRate)
             => SortedLevel(k) = SortedLevel(l)
        /\ SortedLevel(k) = SortedLevel(l)
             => Overlap(score_probabilities[SortedAt(k)], score_probabilities[SortedAt(l)])
        /\ SortedLevel(k) < SortedLevel(l)
             => BigLess(score_probabilities[SortedAt(l)].lo,
                        score_probabilities[SortedAt(k)].hi)

\* The entry at place j of the table, left out of the list, stands after the
\* last entry of the list: its double can be less, or it is the same double
\* (surely the same, or possibly the same at its least) and is inserted later.
LeftOutBehind(j, last) ==
    /\ \A k \in 1..Len(sorted_scores) :
         SameFloat(score_probabilities[SortedAt(k)], score_probabilities[j],
                   ResultSameRate)
           => /\ SortedLevel(k) = SortedLevel(Len(sorted_scores))
              /\ EnumeratedBefore(score_probabilities[last], score_probabilities[j])
    /\ \/ SameFloat(score_probabilities[last], score_probabilities[j], ResultSameRate)
       \/ BigLess(score_probabilities[j].lo, score_probabilities[last].hi)
       \/ /\ score_probabilities[j].lo = score_probabilities[last].hi
          /\ EnumeratedBefore(score_probabilities[last], score_probabilities[j])

\* C8: the top five are five different entries of the table of
\* (max_goals + 1)^2 scorelines, the first five of the sorted list; every entry
\* is of a greater probability than the next or of exactly the same probability
\* (the same double) and then of fewer home goals or, at equal home goals, of
\* fewer away goals; every entry left out stands after the fifth in the same
\* order; goal counts are in 0..max_goals and the percentages in 0..100, never
\* increasing down the list and equal for entries of the same double.
C8_TopFiveOrdering ==
    Populated =>
        LET top    == result.value.top_five_scores
            cells  == score_probabilities
            listed == {SortedAt(k) : k \in 1..Len(sorted_scores)}
        IN  /\ Len(top) = 5
            /\ Len(sorted_scores) = 5
            /\ Len(cells) = (MaxGoals + 1) * (MaxGoals + 1)
            /\ \A k \in 1..5 :
                 /\ SortedAt(k) \in 1..Len(cells)
                 /\ top[k].score = cells[SortedAt(k)].score
                 /\ cells[SortedAt(k)].score
                      = Scoreline(cells[SortedAt(k)].home_goals,
                                  cells[SortedAt(k)].away_goals)
                 /\ cells[SortedAt(k)].home_goals \in 0..MaxGoals
                 /\ cells[SortedAt(k)].away_goals \in 0..MaxGoals
                 /\ top[k].probability \in 0..Hundred
            /\ Cardinality(listed) = 5
            /\ LevelsOfFloats
            /\ \A k \in 1..4 :
                 \/ SortedLevel(k) < SortedLevel(k + 1)
                 \/ /\ SortedLevel(k) = SortedLevel(k + 1)
                    /\ EnumeratedBefore(cells[SortedAt(k)], cells[SortedAt(k + 1)])
            /\ \A j \in (1..Len(cells)) \ listed : LeftOutBehind(j, SortedAt(5))
            /\ \A k \in 1..4 :
                 /\ top[k].probability >= top[k + 1].probability
                 /\ SortedLevel(k) = SortedLevel(k + 1)
                      => top[k].probability = top[k + 1].probability

\* C8 witness: a top five of positive probabilities in which an entry comes
\* before one inserted earlier whose range is the same (equal to it as a real
\* number, its double greater), and that one is followed by an entry of exactly
\* the same double that is not the product of the same two factors
C8_Witness ==
    /\ Populated
    /\ result.value.top_five_scores[5].probability > 0
    /\ \E k \in 1..3 :
         /\ SortedLevel(k) < SortedLevel(k + 1)
         /\ SortedAt(k) > SortedAt(k + 1)
         /\ score_probabilities[SortedAt(k)].lo = score_probabilities[SortedAt(k + 1)].lo
         /\ score_probabilities[SortedAt(k)].hi = score_probabilities[SortedAt(k + 1)].hi
         /\ SortedLevel(k + 1) = SortedLevel(k + 2)
         /\ score_probabilities[SortedAt(k + 1)].home_goals
              # score_probabilities[SortedAt(k + 2)].away_goals

====
